---- MODULE Spec2Model ----
(***************************************************************************)
(* A model of sc_loc_poc.py: the INI key=value store (INIParser), the      *)
(* translation validator (TranslationValidator), the backup manager        *)
(* (BackupManager), the merge engine (TranslationMerger) and the project   *)
(* store (TranslationProject).                                             *)
(*                                                                         *)
(* Text is a sequence of characters, a character a one-token string.  The  *)
(* tokens "LF", "CR", "BOM" and "SURR" stand for the line feed, the        *)
(* carriage return, U+FEFF and an unpaired surrogate code point.           *)
(***************************************************************************)
EXTENDS Integers, Sequences, FiniteSets, TLC

VARIABLES
    now,          \* the wall clock, in seconds (datetime.now(), file mtimes)
    files,        \* the files outside the backup directory: path -> [content, mtime]
    backups,      \* the backup directory: backup name -> [content, mtime]
    history,      \* the names given by the successful create_backup calls, in call order
    writes,       \* how often the merged file was written
    call,         \* the last operation called, with its arguments and its outcome
    prev,         \* the operation called before it, when call continues it
    translations, \* TranslationProject.translations
    metadata,     \* TranslationProject.metadata
    projectFile   \* the JSON document at TranslationProject.project_file

vars == <<now, files, backups, history, writes, call, prev, translations, metadata, projectFile>>

NoCall == [op |-> "none"]

(***************************************************************************)
(* Helpers on sequences and sets.                                          *)
(***************************************************************************)
Range(s) == {s[i] : i \in 1..Len(s)}

Max(a, b) == IF a >= b THEN a ELSE b

SeqsUpTo(S, n) == UNION {[1..k -> S] : k \in 0..n}

(***************************************************************************)
(* INIParser                                                               *)
(*                                                                         *)
(* A dict is the sequence of its [key, value] items in insertion order,    *)
(* no key twice.  A file is the text it decodes to; a file that begins     *)
(* with "BOM" begins with the bytes EF BB BF.                              *)
(***************************************************************************)
MaxIniChars == 3
MaxItems == 2

KeyChars == {"a", " ", "=", "#", "LF", "BOM"}
ValueChars == {"a", " ", "=", "LF", "CR", "SURR"}

\* str.strip(): the whitespace characters of the model.
IsSpace(c) == c \in {" ", "LF", "CR"}

RECURSIVE LStrip(_)
LStrip(s) == IF s # <<>> /\ IsSpace(Head(s)) THEN LStrip(Tail(s)) ELSE s

RECURSIVE RStrip(_)
RStrip(s) == IF s # <<>> /\ IsSpace(s[Len(s)]) THEN RStrip(SubSeq(s, 1, Len(s) - 1)) ELSE s

Strip(s) == RStrip(LStrip(s))

\* The lines `for line in f` yields from a file opened with newline=None: "LF",
\* "CR" and "CR" "LF" each end a line; a last line needs no terminator.
RECURSIVE LinesFrom(_, _, _, _)
LinesFrom(t, i, cur, acc) ==
    IF i > Len(t) THEN (IF cur = <<>> THEN acc ELSE Append(acc, cur))
    ELSE IF t[i] = "LF" THEN LinesFrom(t, i + 1, <<>>, Append(acc, cur))
    ELSE IF t[i] = "CR"
         THEN LinesFrom(t, IF i < Len(t) /\ t[i + 1] = "LF" THEN i + 2 ELSE i + 1, <<>>, Append(acc, cur))
    ELSE LinesFrom(t, i + 1, Append(cur, t[i]), acc)

Lines(t) == LinesFrom(t, 1, <<>>, <<>>)

\* encoding='utf-8-sig': a byte-order mark at the start of the file is dropped.
DecodeSig(t) == IF t # <<>> /\ Head(t) = "BOM" THEN Tail(t) ELSE t

Keys(d) == {d[i].key : i \in 1..Len(d)}

\* d.get(k, default)
Get(d, k, default) ==
    IF k \in Keys(d) THEN d[CHOOSE i \in 1..Len(d) : d[i].key = k].value ELSE default

\* d[k] = v: an existing key keeps its place, a new one goes last.
Set(d, k, v) ==
    IF k \in Keys(d)
    THEN [i \in 1..Len(d) |-> IF d[i].key = k THEN [key |-> k, value |-> v] ELSE d[i]]
    ELSE Append(d, [key |-> k, value |-> v])

\* The position of the last "=" of a line that holds one.
LastEq(line) == CHOOSE i \in 1..Len(line) : line[i] = "=" /\ \A j \in (i + 1)..Len(line) : line[j] # "="

\* The position of the first "=" of a line that holds one: line.partition('=').
FirstEq(line) == CHOOSE i \in 1..Len(line) : line[i] = "=" /\ \A j \in 1..(i - 1) : line[j] # "="

\* The body of parse's loop for one line.
ParseLine(d, raw) ==
    LET line == Strip(raw) IN
    IF line = <<>> \/ Head(line) \in {"#", ";"} THEN d
    ELSE IF "=" \notin Range(line) THEN d
    ELSE LET i == FirstEq(line)
             key == Strip(SubSeq(line, 1, i - 1))
             value == Strip(SubSeq(line, i + 1, Len(line)))
         IN  IF key # <<>> THEN Set(d, key, value) ELSE d

RECURSIVE ParseLines(_, _)
ParseLines(d, ls) == IF ls = <<>> THEN d ELSE ParseLines(ParseLine(d, Head(ls)), Tail(ls))

\* INIParser.parse of a file holding text t.
Parse(t) == ParseLines(<<>>, Lines(DecodeSig(t)))

\* newline='\r\n': every "LF" written goes to the file as "CR" "LF".
RECURSIVE Crlf(_)
Crlf(s) ==
    IF s = <<>> THEN <<>>
    ELSE (IF Head(s) = "LF" THEN <<"CR", "LF">> ELSE <<Head(s)>>) \o Crlf(Tail(s))

\* encode('utf-8') fails on an unpaired surrogate.
Encodable(s) == "SURR" \notin Range(s)

\* INIParser.write: the file it leaves, and the exception that ended it, if any.  The
\* line that cannot be encoded and the lines after it are not written.
RECURSIVE WriteFrom(_, _, _)
WriteFrom(d, i, text) ==
    IF i > Len(d) THEN [text |-> text, raised |-> "none"]
    ELSE LET line == d[i].key \o <<"=">> \o d[i].value \o <<"LF">>
         IN  IF Encodable(line) THEN WriteFrom(d, i + 1, text \o Crlf(line))
             ELSE [text |-> text, raised |-> "UnicodeEncodeError"]

Write(d) == WriteFrom(d, 1, <<>>)

\* The [key, value] items of at most n characters.
ItemsWithin(n) ==
    UNION {{[key |-> key, value |-> value] : value \in SeqsUpTo(ValueChars, n - Len(key))} :
           key \in SeqsUpTo(KeyChars, n)}

RECURSIVE Size(_)
Size(d) == IF d = <<>> THEN 0 ELSE Len(Head(d).key) + Len(Head(d).value) + Size(Tail(d))

NoBackupState ==
    /\ now = 1
    /\ files = [p \in {} |-> [content |-> "A", mtime |-> 0]]
    /\ backups = [p \in {} |-> [content |-> "A", mtime |-> 0]]
    /\ history = <<>>
    /\ writes = 0

NoProjectState ==
    /\ translations = <<>>
    /\ metadata = "default"
    /\ projectFile = [exists |-> FALSE]

UnchangedBackup == UNCHANGED <<now, files, backups, history, writes>>

UnchangedProject == UNCHANGED <<translations, metadata, projectFile>>

InitIni ==
    /\ call = NoCall
    /\ prev = NoCall
    /\ NoBackupState
    /\ NoProjectState

\* INIParser.write(file, d)
WriteFile(d) ==
    /\ call' = [op |-> "write", data |-> d, text |-> Write(d).text, raised |-> Write(d).raised]
    /\ UNCHANGED prev
    /\ UnchangedBackup
    /\ UnchangedProject

\* INIParser.parse(file) of the file the write before left.
ParseFile ==
    /\ call.op = "write"
    /\ prev' = call
    /\ call' = [op |-> "parse", text |-> call.text, data |-> Parse(call.text)]
    /\ UnchangedBackup
    /\ UnchangedProject

\* write called with d, or with a dict that extends d by at most k items: the
\* dicts of at most MaxItems items, no key twice, MaxIniChars characters in all.
RECURSIVE WriteSome(_, _)
WriteSome(d, k) ==
    \/ WriteFile(d)
    \/ /\ k > 0
       /\ \E item \in ItemsWithin(MaxIniChars - Size(d)) :
            /\ \A j \in 1..Len(d) : d[j].key # item.key
            /\ WriteSome(Append(d, item), k - 1)

NextIni ==
    \/ call.op = "none" /\ WriteSome(<<>>, MaxItems)
    \/ ParseFile

SpecIni == InitIni /\ [][NextIni]_vars

Trimmed(s) == Strip(s) = s

\* C2 as stated: for a dict whose keys are non-empty and trimmed, parse of the file
\* write produced returns the dict written.
C2_RoundTrip ==
    (/\ call.op = "parse"
     /\ \A i \in 1..Len(prev.data) : prev.data[i].key # <<>> /\ Trimmed(prev.data[i].key))
    => (prev.raised = "none" /\ call.data = prev.data)

\* What write and parse keep of a key and of a value.
PlainKey(k) ==
    /\ k # <<>>
    /\ Trimmed(k)
    /\ Range(k) \cap {"=", "LF", "CR"} = {}
    /\ Head(k) \notin {"#", ";"}
    /\ Encodable(k)

PlainValue(v) ==
    /\ Trimmed(v)
    /\ Range(v) \cap {"LF", "CR"} = {}
    /\ Encodable(v)

PlainDict(d) ==
    /\ \A i \in 1..Len(d) : PlainKey(d[i].key) /\ PlainValue(d[i].value)
    /\ d # <<>> => Head(d[1].key) # "BOM"

\* C2, amended: the round trip holds for a dict whose keys are non-empty, trimmed,
\* free of "=" and of line breaks, do not start with "#" or ";" (nor the first key
\* with U+FEFF), and whose values are trimmed and free of line breaks, all of them
\* encodable as UTF-8.
C2_RoundTripPlain ==
    (call.op = "parse" /\ PlainDict(prev.data))
    => (prev.raised = "none" /\ call.data = prev.data)

\* A dict of two items, one value holding "=", written and parsed back unchanged.
C2_Witness ==
    /\ call.op = "parse"
    /\ PlainDict(prev.data)
    /\ Len(prev.data) = 2
    /\ \E i \in 1..2 : "=" \in Range(prev.data[i].value)
    /\ call.data = prev.data

(***************************************************************************)
(* TranslationValidator                                                    *)
(***************************************************************************)
MaxVarLen == 3
MaxTransLen == 4
MaxOrigLen == 2

VarChars == {"{", "}", "%", "s", "d"}
TransChars == {"%", "s", "\\", "n", "LF", "SURR"}
OrigChars == {"%", "s"}

\* Translation(key, original, translated), category and comment at their defaults.
Translation(k, o, t) ==
    [key |-> k, original |-> o, translated |-> t, category |-> "general", comment |-> <<>>]

\* ValidationResult(level, message, key)
ValidationResult(level, message, k) == [level |-> level, message |-> message, key |-> k]

\* The position of the first "}" of s after position i, 0 when there is none.
NextClose(s, i) ==
    IF \E j \in (i + 1)..Len(s) : s[j] = "}"
    THEN CHOOSE j \in (i + 1)..Len(s) : s[j] = "}" /\ \A m \in (i + 1)..(j - 1) : s[m] # "}"
    ELSE 0

\* set(re.findall(r'\{[^}]+\}|%[sd]', s)): the matches found scanning from position
\* i, each match starting where the one before it ended.
RECURSIVE FindVars(_, _)
FindVars(s, i) ==
    IF i > Len(s) THEN {}
    ELSE IF s[i] = "{" /\ NextClose(s, i) > i + 1
         THEN {SubSeq(s, i, NextClose(s, i))} \cup FindVars(s, NextClose(s, i) + 1)
    ELSE IF s[i] = "%" /\ i < Len(s) /\ s[i + 1] \in {"s", "d"}
         THEN {SubSeq(s, i, i + 1)} \cup FindVars(s, i + 2)
    ELSE FindVars(s, i + 1)

Vars(s) == FindVars(s, 1)

\* _check_variables as it would be if it looked only for missing placeholders.
CheckMissingVariables(trans, original) ==
    LET missing == Vars(original) \ Vars(trans.translated)
    IN  IF missing # {}
        THEN <<ValidationResult("error",
                 [text |-> "Variable mismatch", key |-> trans.key, missing |-> missing, extra |-> {}],
                 trans.key)>>
        ELSE <<>>

\* TranslationValidator._check_variables.  The message names the key, then the
\* missing set and the extra set, each only when it is not empty.
CheckVariables(trans, original) ==
    LET original_vars == Vars(original)
        translated_vars == Vars(trans.translated)
    IN  IF original_vars # translated_vars
        THEN <<ValidationResult("error",
                 [text |-> "Variable mismatch", key |-> trans.key,
                  missing |-> original_vars \ translated_vars,
                  extra |-> translated_vars \ original_vars],
                 trans.key)>>
        ELSE <<>>

\* _check_length as it would be if a translation of exactly 1.5 times the length
\* warned too.
CheckLengthAtLeast(trans, original) ==
    IF 2 * Len(trans.translated) >= 3 * Len(original)
    THEN <<ValidationResult("warning",
             [text |-> "is much longer", key |-> trans.key,
              translated_len |-> Len(trans.translated), original_len |-> Len(original)],
             trans.key)>>
    ELSE <<>>

\* TranslationValidator._check_length: len(translated) > len(original) * 1.5
CheckLength(trans, original) ==
    IF 2 * Len(trans.translated) > 3 * Len(original)
    THEN <<ValidationResult("warning",
             [text |-> "is much longer", key |-> trans.key,
              translated_len |-> Len(trans.translated), original_len |-> Len(original)],
             trans.key)>>
    ELSE <<>>

\* '\\n' in s or '\n' in s: a backslash followed by n, or a line feed.
HasNewline(s) ==
    \/ "LF" \in Range(s)
    \/ \E i \in 1..(Len(s) - 1) : s[i] = "\\" /\ s[i + 1] = "n"

\* TranslationValidator._check_special_chars
CheckSpecialChars(trans) ==
    IF HasNewline(trans.translated)
    THEN <<ValidationResult("info", [text |-> "contains newlines", key |-> trans.key], trans.key)>>
    ELSE <<>>

\* TranslationValidator._check_encoding
CheckEncoding(trans) ==
    IF ~Encodable(trans.translated)
    THEN <<ValidationResult("error", [text |-> "can't be encoded", key |-> trans.key], trans.key)>>
    ELSE <<>>

\* validate as it would be if it stopped at the first check that found something.
ValidateUntilFound(trans, original_value) ==
    IF CheckVariables(trans, original_value) # <<>> THEN CheckVariables(trans, original_value)
    ELSE IF CheckLength(trans, original_value) # <<>> THEN CheckLength(trans, original_value)
    ELSE IF CheckSpecialChars(trans) # <<>> THEN CheckSpecialChars(trans)
    ELSE CheckEncoding(trans)

\* TranslationValidator.validate
Validate(trans, original_value) ==
    CheckVariables(trans, original_value)
        \o CheckLength(trans, original_value)
        \o CheckSpecialChars(trans)
        \o CheckEncoding(trans)

(***************************************************************************)
(* TranslationMerger.merge                                                 *)
(***************************************************************************)
MaxTranslations == 2

\* The source files merged into: with a byte-order mark and a comment; with an empty
\* value; empty; with a key given twice.
SourceFiles ==
    { <<"BOM", "a", "=", "s", "CR", "LF", "#", "c", "=", "s", "CR", "LF", "b", "=", "%", "s", "CR", "LF">>,
      <<"a", "=", "CR", "LF", "b", " ", "=", " ", "s", "s", "LF">>,
      <<>>,
      <<"a", "=", "%", "s", "LF", "a", "=", "s", "s", "s", "LF">> }

\* The keys translations name; no source file holds "c".
MergeKeys == {<<"a">>, <<"b">>, <<"c">>}

\* The translated texts merged.
MergeTexts ==
    { <<>>, <<"s">>, <<"%", "s">>, <<"s", "s", "s", "s">>, <<"LF">>, <<"SURR">>,
      <<"%", "s", "LF", "SURR">> }

MergeTranslations == {Translation(k, <<>>, t) : k \in MergeKeys, t \in MergeTexts}

\* The validation loop of merge.
RECURSIVE ValidateAll(_, _)
ValidateAll(source_data, ts) ==
    IF ts = <<>> THEN <<>>
    ELSE Validate(Head(ts), Get(source_data, Head(ts).key, <<>>))
            \o ValidateAll(source_data, Tail(ts))

\* One round of the apply loop as it would be if it added the text to the value.
ApplyAppending(st, trans) ==
    IF trans.key \in Keys(st.merged)
    THEN [merged |-> Set(st.merged, trans.key, Get(st.merged, trans.key, <<>>) \o trans.translated),
          applied |-> st.applied + 1,
          not_found |-> st.not_found]
    ELSE [st EXCEPT !.not_found = Append(@, trans.key)]

\* One round of the apply loop of merge.
ApplyOne(st, trans) ==
    IF trans.key \in Keys(st.merged)
    THEN [merged |-> Set(st.merged, trans.key, trans.translated),
          applied |-> st.applied + 1,
          not_found |-> st.not_found]
    ELSE [st EXCEPT !.not_found = Append(@, trans.key)]

RECURSIVE ApplyFrom(_, _)
ApplyFrom(st, ts) == IF ts = <<>> THEN st ELSE ApplyFrom(ApplyOne(st, Head(ts)), Tail(ts))

\* The apply step of merge: merged_data, applied and not_found after the loop.
ApplyTranslations(source_data, ts) ==
    ApplyFrom([merged |-> source_data, applied |-> 0, not_found |-> <<>>], ts)

\* merge as it would be if an error diagnostic kept the translations from being
\* applied.
MergeUnlessErrors(source, ts, validate) ==
    LET source_data == Parse(source)
        all_validation_results == IF validate THEN ValidateAll(source_data, ts) ELSE <<>>
        blocked == \E i \in 1..Len(all_validation_results) : all_validation_results[i].level = "error"
        st == ApplyTranslations(source_data, IF blocked THEN <<>> ELSE ts)
        written == Write(st.merged)
    IN  [op |-> "merge", source |-> source, translations |-> ts, validate |-> validate,
         source_data |-> source_data,
         diagnostics |-> all_validation_results,
         merged |-> st.merged, applied |-> st.applied, not_found |-> st.not_found,
         output |-> written.text, raised |-> written.raised]

\* TranslationMerger.merge(source_file, translations, output_file, validate): what it
\* computed, the output file it left, and the exception that ended it, if any.  The
\* pair (merged, diagnostics) is returned when nothing was raised.
Merge(source, ts, validate) ==
    LET source_data == Parse(source)
        all_validation_results == IF validate THEN ValidateAll(source_data, ts) ELSE <<>>
        st == ApplyTranslations(source_data, ts)
        written == Write(st.merged)
    IN  [op |-> "merge", source |-> source, translations |-> ts, validate |-> validate,
         source_data |-> source_data,
         diagnostics |-> all_validation_results,
         merged |-> st.merged, applied |-> st.applied, not_found |-> st.not_found,
         output |-> written.text, raised |-> written.raised]

InitMerge == InitIni

\* TranslationValidator._check_variables(trans, original)
CheckVariablesCall(t, o) ==
    /\ call' = [op |-> "check_variables", key |-> <<"a">>, original |-> o, translated |-> t,
                results |-> CheckVariables(Translation(<<"a">>, o, t), o)]
    /\ UNCHANGED prev
    /\ UnchangedBackup
    /\ UnchangedProject

\* TranslationValidator.validate(trans, original_value)
ValidateCall(t, o) ==
    /\ call' = [op |-> "validate", key |-> <<"a">>, original |-> o, translated |-> t,
                results |-> Validate(Translation(<<"a">>, o, t), o)]
    /\ UNCHANGED prev
    /\ UnchangedBackup
    /\ UnchangedProject

\* merge(source_file, translations, output_file, validate)
MergeCall(source, ts, validate) ==
    /\ call' = Merge(source, ts, validate)
    /\ UNCHANGED prev
    /\ UnchangedBackup
    /\ UnchangedProject

\* merge called again on the same source file and translations with validate the
\* other way.
MergeOtherMode ==
    /\ call.op = "merge"
    /\ prev.op = "none"
    /\ prev' = call
    /\ call' = Merge(call.source, call.translations, ~call.validate)
    /\ UnchangedBackup
    /\ UnchangedProject

\* merge called again on the same source file with the one translation given twice.
MergeTwice ==
    /\ call.op = "merge"
    /\ prev.op = "none"
    /\ Len(call.translations) = 1
    /\ prev' = call
    /\ call' = Merge(call.source, call.translations \o call.translations, call.validate)
    /\ UnchangedBackup
    /\ UnchangedProject

\* One call from a fresh start, or a second merge after a first.
NextMerge ==
    \/ /\ call.op = "none"
       /\ \E t \in SeqsUpTo(VarChars, MaxVarLen) : \E o \in SeqsUpTo(VarChars, MaxVarLen) :
            CheckVariablesCall(t, o)
    \/ /\ call.op = "none"
       /\ \E t \in SeqsUpTo(TransChars, MaxTransLen) : \E o \in SeqsUpTo(OrigChars, MaxOrigLen) :
            ValidateCall(t, o)
    \/ /\ call.op = "none"
       /\ \E source \in SourceFiles : \E ts \in SeqsUpTo(MergeTranslations, MaxTranslations) :
            \E validate \in BOOLEAN : MergeCall(source, ts, validate)
    \/ MergeOtherMode
    \/ MergeTwice

SpecMerge == InitMerge /\ [][NextMerge]_vars

\* The positions of the translations naming key k.
Naming(ts, k) == {j \in 1..Len(ts) : ts[j].key = k}

\* What merge does with a translation whose key the source lacks, whether or not it
\* runs to its end: the key is reported not found and not counted, and the merged
\* dict has the source's keys in the source's order, a key no translation names with
\* its source value, a key some translation names with the text of the last one.
UnknownKeyKept(c) ==
    /\ c.not_found = [j \in 1..Len(c.not_found) |->
                        SelectSeq(c.translations, LAMBDA t : t.key \notin Keys(c.source_data))[j].key]
    /\ c.applied = Cardinality({j \in 1..Len(c.translations) :
                                    c.translations[j].key \in Keys(c.source_data)})
    /\ Len(c.merged) = Len(c.source_data)
    /\ \A i \in 1..Len(c.merged) :
        /\ c.merged[i].key = c.source_data[i].key
        /\ c.merged[i].value =
              IF Naming(c.translations, c.merged[i].key) = {}
              THEN c.source_data[i].value
              ELSE c.translations[CHOOSE j \in Naming(c.translations, c.merged[i].key) :
                        \A m \in Naming(c.translations, c.merged[i].key) : m <= j].translated

HasUnknownKey(c) ==
    c.op = "merge" /\ \E j \in 1..Len(c.translations) : c.translations[j].key \notin Keys(c.source_data)

\* C3 as stated: given a translation whose key the source lacks, merge completes and
\* writes the output, reports the key not found without counting it, and the merged
\* dict is the source with the named keys' values replaced.
C3_UnknownKey ==
    HasUnknownKey(call)
    => (/\ call.raised = "none"
        /\ call.output = Write(call.merged).text
        /\ UnknownKeyKept(call))

\* What of C3 the code keeps: the merged dict is as stated; merge completes and
\* writes the output when every value of the merged dict can be encoded as UTF-8,
\* and when one cannot write raises UnicodeEncodeError.
C3_UnknownKeyEncodable ==
    HasUnknownKey(call)
    => (/\ UnknownKeyKept(call)
        /\ (\A i \in 1..Len(call.merged) : Encodable(call.merged[i].value))
              => (call.raised = "none" /\ call.output = Write(call.merged).text)
        /\ (\E i \in 1..Len(call.merged) : ~Encodable(call.merged[i].value))
              => call.raised = "UnicodeEncodeError")

\* A merge of two translations, one for a key the source lacks and one applied, that
\* ran to its end.
C3_Witness ==
    /\ HasUnknownKey(call)
    /\ call.raised = "none"
    /\ call.applied = 1
    /\ Len(call.not_found) = 1
    /\ call.merged # call.source_data
    /\ call.output # <<>>

\* C4: merge of the same source file and translations gives the same merged dict,
\* counts, output file and outcome with validate true as with validate false,
\* whatever diagnostics the validation returned.
C4_ValidationAdvisory ==
    (/\ call.op = "merge"
     /\ prev.op = "merge"
     /\ prev.source = call.source
     /\ prev.translations = call.translations
     /\ prev.validate # call.validate)
    => (/\ call.merged = prev.merged
        /\ call.applied = prev.applied
        /\ call.not_found = prev.not_found
        /\ call.output = prev.output
        /\ call.raised = prev.raised)

\* The same merge run with and without validation, the validation returning two
\* error diagnostics and the translations applied all the same.
C4_Witness ==
    /\ call.op = "merge"
    /\ prev.op = "merge"
    /\ prev.source = call.source
    /\ prev.translations = call.translations
    /\ prev.validate /\ ~call.validate
    /\ Cardinality({i \in 1..Len(prev.diagnostics) : prev.diagnostics[i].level = "error"}) >= 2
    /\ call.applied = 2
    /\ call.merged # call.source_data
    /\ call.raised = "none"

\* C6: the merged dict of translations [r, r] is that of [r], and applying [r] to the
\* merged dict of [r] leaves it as it is.
C6_Idempotent ==
    /\ (/\ call.op = "merge"
        /\ prev.op = "merge"
        /\ prev.source = call.source
        /\ Len(prev.translations) = 1
        /\ call.translations = prev.translations \o prev.translations)
       => call.merged = prev.merged
    /\ (call.op = "merge" /\ Len(call.translations) = 1)
       => ApplyTranslations(call.merged, call.translations).merged = call.merged

\* A merge of [r, r] after a merge of [r], r replacing a value of the source.
C6_Witness ==
    /\ call.op = "merge"
    /\ prev.op = "merge"
    /\ prev.source = call.source
    /\ Len(prev.translations) = 1
    /\ call.translations = prev.translations \o prev.translations
    /\ call.applied = 2
    /\ call.merged # call.source_data
    /\ call.merged = prev.merged

\* C7: _check_variables returns nothing when the two texts hold the same set of
\* placeholders, and otherwise one error for the record's key whose message lists
\* the placeholders missing from the translation and those extra in it.
C7_PlaceholderSymmetry ==
    call.op = "check_variables"
    => IF Vars(call.original) = Vars(call.translated)
       THEN call.results = <<>>
       ELSE /\ Len(call.results) = 1
            /\ call.results[1].level = "error"
            /\ call.results[1].key = call.key
            /\ call.results[1].message.key = call.key
            /\ call.results[1].message.missing = Vars(call.original) \ Vars(call.translated)
            /\ call.results[1].message.extra = Vars(call.translated) \ Vars(call.original)

\* A check that found a brace placeholder missing and a percent directive extra.
C7_Witness ==
    /\ call.op = "check_variables"
    /\ Len(call.results) = 1
    /\ \E m \in call.results[1].message.missing : Head(m) = "{"
    /\ \E e \in call.results[1].message.extra : Head(e) = "%"

\* The place of a diagnostic's check in validate.
CheckRank(d) ==
    CASE d.message.text = "Variable mismatch" -> 1
      [] d.message.text = "is much longer" -> 2
      [] d.message.text = "contains newlines" -> 3
      [] d.message.text = "can't be encoded" -> 4

CheckLevel(d) ==
    CASE d.message.text = "Variable mismatch" -> "error"
      [] d.message.text = "is much longer" -> "warning"
      [] d.message.text = "contains newlines" -> "info"
      [] d.message.text = "can't be encoded" -> "error"

Found(results, rank) == \E i \in 1..Len(results) : CheckRank(results[i]) = rank

\* The number of diagnostics of the translations before the i-th.
RECURSIVE DiagnosticsBefore(_, _)
DiagnosticsBefore(c, i) ==
    IF i = 1 THEN 0
    ELSE DiagnosticsBefore(c, i - 1)
            + Len(Validate(c.translations[i - 1], Get(c.source_data, c.translations[i - 1].key, <<>>)))

\* C10: validate returns at most one diagnostic per check, in the order placeholder
\* error, length warning, newline info, encoding error, each present exactly when
\* its own condition holds; merge with validate true returns the records' lists one
\* after the other in the order of the translations.
C10_AllChecksInOrder ==
    /\ call.op = "validate"
       => /\ \A i \in 1..Len(call.results) : \A j \in 1..Len(call.results) :
                i < j => CheckRank(call.results[i]) < CheckRank(call.results[j])
          /\ \A i \in 1..Len(call.results) :
                /\ call.results[i].level = CheckLevel(call.results[i])
                /\ call.results[i].key = call.key
          /\ Found(call.results, 1) <=> Vars(call.original) # Vars(call.translated)
          /\ Found(call.results, 2) <=> 2 * Len(call.translated) > 3 * Len(call.original)
          /\ Found(call.results, 3) <=> HasNewline(call.translated)
          /\ Found(call.results, 4) <=> ~Encodable(call.translated)
    /\ (call.op = "merge" /\ call.validate)
       => /\ Len(call.diagnostics) = DiagnosticsBefore(call, Len(call.translations) + 1)
          /\ \A i \in 1..Len(call.translations) :
                LET mine == Validate(call.translations[i],
                                     Get(call.source_data, call.translations[i].key, <<>>))
                IN  \A m \in 1..Len(mine) :
                        call.diagnostics[DiagnosticsBefore(call, i) + m] = mine[m]
    /\ (call.op = "merge" /\ ~call.validate) => call.diagnostics = <<>>

\* A validate call in which all four checks found something.
C10_Witness ==
    /\ call.op = "validate"
    /\ Len(call.results) = 4
    /\ call.original # <<>>

\* The warning diagnostics of a list.
Warnings(results) == SelectSeq(results, LAMBDA d : d.level = "warning")

\* A text of t characters is strictly longer than 1.5 times one of o characters.
MuchLonger(t, o) == t > o + (o \div 2)

\* C11: validate returns exactly one warning, citing the key and both lengths, when
\* the translated text has strictly more than 1.5 times the characters of the
\* original, and none otherwise; for an original of 2 characters that is 4 or more
\* and not 3 or fewer; a validating merge returns one warning per record that is
\* much longer than its source value, and so one for every non-empty translation
\* whose key the source lacks.
C11_LengthWarning ==
    /\ call.op = "validate"
       => LET w == Warnings(call.results)
          IN  /\ Len(w) = IF MuchLonger(Len(call.translated), Len(call.original)) THEN 1 ELSE 0
              /\ \A i \in 1..Len(w) :
                    /\ w[i].key = call.key
                    /\ w[i].message.text = "is much longer"
                    /\ w[i].message.translated_len = Len(call.translated)
                    /\ w[i].message.original_len = Len(call.original)
              /\ Len(call.original) = 2 => (Len(w) = 1 <=> Len(call.translated) >= 4)
    /\ (call.op = "merge" /\ call.validate)
       => /\ Len(Warnings(call.diagnostics))
                = Cardinality({i \in 1..Len(call.translations) :
                        MuchLonger(Len(call.translations[i].translated),
                                   Len(Get(call.source_data, call.translations[i].key, <<>>)))})
          /\ \A i \in 1..Len(call.translations) :
                (/\ call.translations[i].key \notin Keys(call.source_data)
                 /\ call.translations[i].translated # <<>>)
                => \E m \in 1..Len(call.diagnostics) :
                        /\ call.diagnostics[m].level = "warning"
                        /\ call.diagnostics[m].key = call.translations[i].key
                        /\ call.diagnostics[m].message.translated_len = Len(call.translations[i].translated)
                        /\ call.diagnostics[m].message.original_len = 0

\* A validating merge that warned about a one-character translation of a key the
\* source lacks, and not about the translation of a key it holds.
C11_Witness ==
    /\ call.op = "merge"
    /\ call.validate
    /\ Len(call.translations) = 2
    /\ call.translations[1].key \notin Keys(call.source_data)
    /\ Len(call.translations[1].translated) = 1
    /\ call.translations[2].key \in Keys(call.source_data)
    /\ call.translations[2].translated # <<>>
    /\ Len(Warnings(call.diagnostics)) = 1

(***************************************************************************)
(* TranslationProject                                                      *)
(***************************************************************************)
MaxFileRecords == 2

ProjectKeys == {<<"a">>, <<"b">>}
ProjectTexts == {<<"s">>, <<"s", "s">>}
ProjectRecords == {Translation(k, <<"s">>, t) : k \in ProjectKeys, t \in ProjectTexts}

\* The JSON documents a project file can hold: "metadata" and "translations" each
\* there or not, the translations any array of records.
ProjectDocuments ==
    {[exists |-> TRUE, has_metadata |-> hm, metadata |-> IF hm THEN "named" ELSE "none",
      has_translations |-> ht, translations |-> IF ht THEN ts ELSE <<>>] :
        hm \in BOOLEAN, ht \in BOOLEAN, ts \in SeqsUpTo(ProjectRecords, MaxFileRecords)}

NoDocument ==
    [exists |-> FALSE, has_metadata |-> FALSE, metadata |-> "none",
     has_translations |-> FALSE, translations |-> <<>>]

\* TranslationProject(project_file): no translations, the default metadata; the file
\* is whatever is at project_file.
InitProject ==
    /\ translations = <<>>
    /\ metadata = "default"
    /\ projectFile \in {NoDocument} \cup ProjectDocuments
    /\ call = NoCall
    /\ prev = NoCall
    /\ NoBackupState

\* TranslationProject.add_translation(translation)
AddTranslation(translation) ==
    /\ translations' = Append(SelectSeq(translations, LAMBDA t : t.key # translation.key), translation)
    /\ call' = [op |-> "add_translation", translation |-> translation]
    /\ UNCHANGED <<metadata, projectFile, prev>>
    /\ UnchangedBackup

\* TranslationProject.load()
Load ==
    /\ IF ~projectFile.exists
       THEN UNCHANGED <<metadata, translations>>
       ELSE /\ metadata' = IF projectFile.has_metadata THEN projectFile.metadata ELSE metadata
            /\ translations' = IF projectFile.has_translations THEN projectFile.translations ELSE <<>>
    /\ call' = [op |-> "load"]
    /\ UNCHANGED <<projectFile, prev>>
    /\ UnchangedBackup

\* TranslationProject.save()
Save ==
    /\ projectFile' = [exists |-> TRUE, has_metadata |-> TRUE, metadata |-> metadata,
                       has_translations |-> TRUE, translations |-> translations]
    /\ call' = [op |-> "save"]
    /\ UNCHANGED <<metadata, translations, prev>>
    /\ UnchangedBackup

NextProject ==
    \/ \E t \in ProjectRecords : AddTranslation(t)
    \/ Load
    \/ Save

SpecProject == InitProject /\ [][NextProject]_vars

\* C9: no two records of the project share a key, and after add_translation(t) the
\* one record with t's key is t.
C9_UniqueKeys ==
    /\ \A i \in 1..Len(translations) : \A j \in 1..Len(translations) :
            translations[i].key = translations[j].key => i = j
    /\ call.op = "add_translation"
       => \A i \in 1..Len(translations) :
            translations[i].key = call.translation.key => translations[i] = call.translation

(***************************************************************************)
(* BackupManager, and TranslationMerger.apply_to_game                      *)
(***************************************************************************)
MaxTime == 6
MaxCalls == 6
MaxWrites == 1
RestoreMaxTime == 3
RestoreMaxCalls == 3
RestoreMaxWrites == 1
Keep == 5

GameFile == "game/data/Localization/english/global.ini"
MergedFile == "out/global.ini"
Paths == {GameFile, MergedFile}
Contents == {"A", "B"}

\* Path.stem and Path.suffix of the modelled paths.
Stem(p) == "global"
Suffix(p) == ".ini"

\* f"{file_path.stem}_{timestamp}{file_path.suffix}", the timestamp to the second.
BackupName(p, t) == [stem |-> Stem(p), stamp |-> t, suffix |-> Suffix(p)]

\* self.backup_dir.glob(f"{file_stem}_*")
Glob(dir, stem) == {n \in DOMAIN dir : n.stem = stem}

\* shutil.copy2(src, dst): dst gets src's content and src's modification time.
Copy2(dir, dst, file) == [n \in DOMAIN dir \cup {dst} |-> IF n = dst THEN file ELSE dir[n]]

\* Path.unlink() of every name in gone.
Unlink(dir, gone) == [n \in DOMAIN dir \ gone |-> dir[n]]

\* The directories _cleanup_old_backups can leave: the matching backups sorted by
\* st_mtime, newest first, all beyond the first `keep` unlinked.  Backups of equal
\* mtime sort in the order glob yields them, which the file system decides.
CleanupOldBackups(dir, stem, keep) ==
    LET matching == Glob(dir, stem)
        excess == Max(Cardinality(matching) - keep, 0)
    IN  {Unlink(dir, gone) : gone \in
            {D \in SUBSET matching :
                /\ Cardinality(D) = excess
                /\ \A d \in D : \A k \in matching \ D : dir[k].mtime >= dir[d].mtime}}

\* The directories create_backup(p) can leave when p exists.
CreateBackupOutcomes(dir, p, file, t) ==
    CleanupOldBackups(Copy2(dir, BackupName(p, t), file), Stem(p), Keep)

\* list_backups(): every entry of the directory, newest mtime first; entries of equal
\* mtime in the order glob yields them.
ListBackups(dir) ==
    {s \in [1..Cardinality(DOMAIN dir) -> DOMAIN dir] :
        /\ Range(s) = DOMAIN dir
        /\ \A i \in 1..Len(s) : \A j \in 1..Len(s) : i < j => dir[s[i]].mtime >= dir[s[j]].mtime}

NoFiles == [p \in {} |-> [content |-> "A", mtime |-> 0]]

InitBackup ==
    /\ now = 1
    /\ files \in {NoFiles} \cup {Copy2(NoFiles, GameFile, [content |-> c, mtime |-> 0]) : c \in Contents}
    /\ backups = NoFiles
    /\ history = <<>>
    /\ writes = 0
    /\ call = NoCall
    /\ prev = NoCall
    /\ NoProjectState

\* A second of wall-clock time passes.
Tick(maxTime) ==
    /\ now < maxTime
    /\ now' = now + 1
    /\ call' = [op |-> "tick"]
    /\ UNCHANGED <<files, backups, history, writes, prev>>
    /\ UnchangedProject

\* INIParser.write(output_file, ...) as the file system sees it: the merged file is
\* created or rewritten now.
WriteMerged(c, maxWrites) ==
    /\ writes < maxWrites
    /\ writes' = writes + 1
    /\ files' = Copy2(files, MergedFile, [content |-> c, mtime |-> now])
    /\ call' = [op |-> "write"]
    /\ UNCHANGED <<now, backups, history, prev>>
    /\ UnchangedProject

\* BackupManager.create_backup(p)
CreateBackup(p, maxCalls) ==
    /\ Len(history) < maxCalls
    /\ IF p \notin DOMAIN files
       THEN /\ call' = [op |-> "create_backup", path |-> p, returned |-> "None"]
            /\ UNCHANGED <<backups, history>>
       ELSE /\ \E dir \in CreateBackupOutcomes(backups, p, files[p], now) : backups' = dir
            /\ history' = Append(history, BackupName(p, now))
            /\ call' = [op |-> "create_backup", path |-> p, returned |-> "path"]
    /\ UNCHANGED <<now, files, writes, prev>>
    /\ UnchangedProject

\* Restore as it would be if it saved the target it is about to overwrite.
RestoreSavingTarget(b, p) ==
    /\ IF b \notin DOMAIN backups
       THEN /\ call' = [op |-> "restore", backup |-> b, path |-> p, raised |-> "FileNotFoundError"]
            /\ UNCHANGED <<files, backups>>
       ELSE /\ files' = Copy2(files, p, backups[b])
            /\ backups' = IF p \in DOMAIN files
                          THEN Copy2(backups, BackupName(p, now), files[p])
                          ELSE backups
            /\ call' = [op |-> "restore", backup |-> b, path |-> p, raised |-> "none"]
    /\ UNCHANGED <<now, history, writes, prev>>
    /\ UnchangedProject

\* BackupManager.restore(b, p)
Restore(b, p) ==
    /\ IF b \notin DOMAIN backups
       THEN /\ call' = [op |-> "restore", backup |-> b, path |-> p, raised |-> "FileNotFoundError"]
            /\ UNCHANGED files
       ELSE /\ files' = Copy2(files, p, backups[b])
            /\ call' = [op |-> "restore", backup |-> b, path |-> p, raised |-> "none"]
    /\ UNCHANGED <<now, backups, history, writes, prev>>
    /\ UnchangedProject

\* TranslationMerger.apply_to_game(m): the backup of an existing target, then the copy.
ApplyToGame(m, maxCalls) ==
    /\ GameFile \in DOMAIN files => Len(history) < maxCalls
    /\ IF GameFile \in DOMAIN files
       THEN /\ \E dir \in CreateBackupOutcomes(backups, GameFile, files[GameFile], now) : backups' = dir
            /\ history' = Append(history, BackupName(GameFile, now))
       ELSE UNCHANGED <<backups, history>>
    /\ IF m \in DOMAIN files
       THEN /\ files' = Copy2(files, GameFile, files[m])
            /\ call' = [op |-> "apply_to_game", merged |-> m, raised |-> "none"]
       ELSE /\ UNCHANGED files
            /\ call' = [op |-> "apply_to_game", merged |-> m, raised |-> "FileNotFoundError"]
    /\ UNCHANGED <<now, writes, prev>>
    /\ UnchangedProject

BackupNames(maxTime) == {BackupName(GameFile, t) : t \in 1..maxTime}

NextBackup(maxTime, maxCalls, maxWrites, targets) ==
    \/ Tick(maxTime)
    \/ \E c \in Contents : WriteMerged(c, maxWrites)
    \/ \E p \in Paths : CreateBackup(p, maxCalls)
    \/ \E b \in BackupNames(maxTime) : \E p \in targets : Restore(b, p)
    \/ ApplyToGame(MergedFile, maxCalls)

\* The backup manager through enough calls for pruning to act; restore targets the
\* game file.
SpecBackup == InitBackup /\ [][NextBackup(MaxTime, MaxCalls, MaxWrites, {GameFile})]_vars

\* The same operations over a shorter time, restore targeting either file.
SpecRestore ==
    InitBackup /\ [][NextBackup(RestoreMaxTime, RestoreMaxCalls, RestoreMaxWrites, Paths)]_vars

\* C1: after N > 5 successful create_backup calls on files of one stem, from an empty
\* backup directory, list_backups filtered to that stem has exactly 5 entries, and
\* they are the 5 backups created last.
C1_PruningBound ==
    Len(history) > Keep =>
        \A listing \in ListBackups(backups) :
            LET mine == SelectSeq(listing, LAMBDA n : n.stem = Stem(GameFile))
            IN  /\ Len(mine) = Keep
                /\ Range(mine) = {history[i] : i \in (Len(history) - Keep + 1)..Len(history)}

\* C5: when apply_to_game ran to its end on an existing target, the backup directory
\* holds a backup with the content the target had before, and the target holds the
\* merged file's content.
C5_ApplyKeepsBackup ==
    [][(/\ call'.op = "apply_to_game"
        /\ call'.raised = "none"
        /\ GameFile \in DOMAIN files)
       => (/\ \E b \in DOMAIN backups' : backups'[b].content = files[GameFile].content
           /\ files'[GameFile].content = files[call'.merged].content)]_vars

\* C8: restore of a missing backup raises FileNotFoundError and changes neither the
\* files nor the backup directory; restore of an existing backup gives the target the
\* backup's content, and leaves the backup directory as it was: the backup unchanged,
\* no backup of the overwritten target added.
C8_Restore ==
    [][call'.op = "restore"
       => IF call'.backup \notin DOMAIN backups
          THEN /\ call'.raised = "FileNotFoundError"
               /\ files' = files
               /\ backups' = backups
          ELSE /\ call'.raised = "none"
               /\ call'.path \in DOMAIN files'
               /\ files'[call'.path].content = backups[call'.backup].content
               /\ \A p \in DOMAIN files \ {call'.path} : p \in DOMAIN files' /\ files'[p] = files[p]
               /\ backups' = backups]_vars

\* A restore that replaced the game file's content by that of a backup, with another
\* backup of different content beside it.
C8_Witness ==
    /\ call.op = "restore"
    /\ call.raised = "none"
    /\ call.path = GameFile
    /\ files[GameFile].content = backups[call.backup].content
    /\ \E b \in DOMAIN backups : backups[b].content # files[GameFile].content

====
